---------------------------- MODULE Spec2Model ----------------------------
(***************************************************************************)
(* A model of cf-error-corpus: the download CLI (cf_error_corpus/cli.py)   *)
(* and the corpus validator (cf_error_corpus/validate.py).                 *)
(*                                                                         *)
(* Text that the code inspects character by character (check-run names,    *)
(* URLs, log contents, the source line of input.yml) is a sequence of      *)
(* one-character strings.  Values the code only compares for equality      *)
(* (conclusion, app slug, platform key) are TLA+ strings.                  *)
(***************************************************************************)
EXTENDS Integers, Sequences, FiniteSets, TLC

VARIABLES
    check_runs,      \* find_failed_azure_builds: the argument
    idx,             \* find_failed_azure_builds: position of the for loop
    failed_builds,   \* find_failed_azure_builds: the dict being built
    sel_pc,          \* find_failed_azure_builds: "off", "loop", "done"
    listing,         \* get_azure_build_logs: what the Azure API answers
    seg_i,           \* get_azure_build_logs: position of the for loop
    logs_content,    \* get_azure_build_logs: the list of downloaded contents
    fetch_ret,       \* get_azure_build_logs: the value returned
    fetch_pc,        \* get_azure_build_logs: "off", "list", "loop", "done"
    pr_url,          \* parse_github_pr_url: the argument
    pr_ret,          \* parse_github_pr_url: the tuple returned, None if it raised
    pr_pc,           \* parse_github_pr_url: "off", "call", "returned", "raised"
    details_url,     \* the Azure details URL of a check run
    det_parts,       \* the parts details_url was put together from
    det_ret,         \* parse_azure_details_url: the value returned
    det_api,         \* extract_azure_log_url_from_details: the value returned
    det_pc,          \* "off", "call", "parsed", "done"
    yml_kind,        \* what the input.yml at file_path was drawn to be
    yml_file,        \* validate_input_yml: the file at file_path
    yml_ret,         \* validate_input_yml: (is_valid, error_message)
    yml_pc,          \* validate_input_yml: "off", "call", "done"
    corpus_exists,   \* validate.main: corpus_dir.exists()
    input_files,     \* validate.main: list(corpus_dir.rglob("input.yml"))
    v_sorted,        \* validate.main: sorted(input_files)
    v_i,             \* validate.main: position of the for loop
    validated,       \* validate.main: the paths validate_input_yml was called on
    errors,          \* validate.main: the list errors
    v_ret,           \* validate.main: the exit code returned, None before
    v_pc,            \* validate.main: "off", "start", "loop", "done"
    m_pc,            \* cli.main: "off", "start", "pr_info", "check_runs", "loop", "done"
    arch_i,          \* cli.main: position of the loop over failed_builds.items()
    entries,         \* the corpus on disk: entry directory -> its two files
    m_err,           \* cli.main: the exception its try block caught, "" if none
    m_ret,           \* cli.main: the value returned, None before
    m_env,           \* what the APIs and the disk did during the run
    bn_name,         \* extract_build_name_from_check_run_name: its argument name
    bn_arch,         \* its argument arch
    bn_ret,          \* its return value, None before
    bn_pc            \* "off", "call", "done"

selVars == <<check_runs, idx, failed_builds, sel_pc>>

fetchVars == <<listing, seg_i, logs_content, fetch_ret, fetch_pc>>

prVars == <<pr_url, pr_ret, pr_pc>>

detVars == <<details_url, det_parts, det_ret, det_api, det_pc>>

ymlVars == <<yml_kind, yml_file, yml_ret, yml_pc>>

valVars ==
    <<corpus_exists, input_files, v_sorted, v_i, validated, errors, v_ret, v_pc>>

mainVars == <<m_pc, arch_i, entries, m_err, m_ret, m_env>>

bnVars == <<bn_name, bn_arch, bn_ret, bn_pc>>

vars == <<selVars, fetchVars, prVars, detVars, ymlVars, valVars, mainVars, bnVars>>

\* what the actions of one function leave alone: the other functions' state
selOthers == <<fetchVars, prVars, detVars, ymlVars, valVars, mainVars, bnVars>>

fetchOthers == <<selVars, prVars, detVars, ymlVars, valVars, mainVars, bnVars>>

prOthers == <<selVars, fetchVars, detVars, ymlVars, valVars, mainVars, bnVars>>

detOthers == <<selVars, fetchVars, prVars, ymlVars, valVars, mainVars, bnVars>>

ymlOthers == <<selVars, fetchVars, prVars, detVars, valVars, mainVars, bnVars>>

valOthers == <<selVars, fetchVars, prVars, detVars, ymlVars, mainVars, bnVars>>

mainOthers == <<fetchVars, detVars, ymlVars, valVars, bnVars>>

bnOthers == <<selVars, fetchVars, prVars, detVars, ymlVars, valVars, mainVars>>

(***************************************************************************)
(* Bounds of the model.                                                    *)
(***************************************************************************)
MaxRuns == 3
MaxSegs == 3
MaxSuffix == 2
MaxParams == 2
MaxFiles == 3
MaxMainRuns == 2
MaxTokens == 2

(***************************************************************************)
(* Strings.                                                                *)
(***************************************************************************)
UpperToLower ==
    [A |-> "a", B |-> "b", C |-> "c", D |-> "d", E |-> "e", F |-> "f",
     G |-> "g", H |-> "h", I |-> "i", J |-> "j", K |-> "k", L |-> "l",
     M |-> "m", N |-> "n", O |-> "o", P |-> "p", Q |-> "q", R |-> "r",
     S |-> "s", T |-> "t", U |-> "u", V |-> "v", W |-> "w", X |-> "x",
     Y |-> "y", Z |-> "z"]

\* str.lower()
Lower(s) ==
    [i \in 1..Len(s) |->
        IF s[i] \in DOMAIN UpperToLower THEN UpperToLower[s[i]] ELSE s[i]]

\* s[i:].startswith(lit), i a 1-based position
StartsWithAt(s, i, lit) ==
    /\ i + Len(lit) - 1 <= Len(s)
    /\ \A j \in 1..Len(lit) : s[i + j - 1] = lit[j]

\* lit in s
Contains(s, lit) == \E i \in 1..(Len(s) + 1) : StartsWithAt(s, i, lit)

\* All sequences over S of length at most n
SeqUpTo(S, n) == UNION {[1..k -> S] : k \in 0..n}

\* Optional values: None, or the value wrapped
None == <<>>

Some(v) == <<v>>

(***************************************************************************)
(* The state of a function that a specification does not run.              *)
(***************************************************************************)
SelIdle ==
    /\ check_runs = <<>>
    /\ idx = 0
    /\ failed_builds = <<>>
    /\ sel_pc = "off"

FetchIdle ==
    /\ listing = [ok |-> FALSE, value |-> <<>>]
    /\ seg_i = 0
    /\ logs_content = <<>>
    /\ fetch_ret = None
    /\ fetch_pc = "off"

PrIdle ==
    /\ pr_url = <<>>
    /\ pr_ret = None
    /\ pr_pc = "off"

DetIdle ==
    /\ details_url = <<>>
    /\ det_parts = <<>>
    /\ det_ret = None
    /\ det_api = None
    /\ det_pc = "off"

YmlIdle ==
    /\ yml_kind = <<>>
    /\ yml_file = <<>>
    /\ yml_ret = <<>>
    /\ yml_pc = "off"

ValIdle ==
    /\ corpus_exists = FALSE
    /\ input_files = <<>>
    /\ v_sorted = <<>>
    /\ v_i = 0
    /\ validated = <<>>
    /\ errors = <<>>
    /\ v_ret = None
    /\ v_pc = "off"

MainIdle ==
    /\ m_pc = "off"
    /\ arch_i = 0
    /\ entries = <<>>
    /\ m_err = ""
    /\ m_ret = None
    /\ m_env = <<>>

BnIdle ==
    /\ bn_name = <<>>
    /\ bn_arch = <<>>
    /\ bn_ret = None
    /\ bn_pc = "off"

(***************************************************************************)
(* Python dict, insertion ordered: a sequence of <<key, value>> pairs.     *)
(***************************************************************************)
DictKeys(d) == {d[i][1] : i \in 1..Len(d)}

DictHas(d, k) == k \in DictKeys(d)

DictGet(d, k) == d[CHOOSE i \in 1..Len(d) : d[i][1] = k][2]

\* d[k] = v
DictSet(d, k, v) ==
    IF DictHas(d, k)
    THEN [i \in 1..Len(d) |-> IF d[i][1] = k THEN <<k, v>> ELSE d[i]]
    ELSE Append(d, <<k, v>>)

(***************************************************************************)
(* Check runs, as the GitHub API returns them.                             *)
(***************************************************************************)
N_linux_64      == <<"l","i","n","u","x","_","6","4">>
N_Linux_aarch64 == <<"L","i","n","u","x","-","a","a","r","c","h","6","4">>
N_osx_64        == <<"o","s","x","_","6","4">>
N_macOS_arm64   == <<"m","a","c","O","S","-","a","r","m","6","4">>
N_win_64        == <<"w","i","n","_","6","4">>
N_linux_osx     == <<"l","i","n","u","x","_","o","s","x">>

RunNames ==
    {N_linux_64, N_Linux_aarch64, N_osx_64, N_macOS_arm64, N_win_64, N_linux_osx}

\* the (conclusion, app slug) pairs of the runs the model draws
RunOutcomes ==
    {<<"failure", "azure-pipelines">>,
     <<"success", "azure-pipelines">>,
     <<"failure", "other-ci">>}

MkRun(n, c, s, d) == [name |-> n, conclusion |-> c, slug |-> s, details_url |-> d]

SelectRuns == {MkRun(n, o[1], o[2], <<>>) : n \in RunNames, o \in RunOutcomes}

(***************************************************************************)
(* find_failed_azure_builds                                                *)
(***************************************************************************)
S_linux == <<"l","i","n","u","x">>
S_osx   == <<"o","s","x">>
S_macos == <<"m","a","c","o","s">>

\* mutant: the conclusion test is missing
RunIsSkipped_NoConclusionTest(run) == run.slug # "azure-pipelines"

\* the two skip tests at the head of the loop body
RunIsSkipped(run) ==
    \/ run.conclusion # "failure"
    \/ run.slug # "azure-pipelines"

\* "linux" in name.lower()
NameIsLinux(name) == Contains(Lower(name), S_linux)

\* "osx" in name.lower() or "macos" in name.lower()
NameIsOsx(name) == Contains(Lower(name), S_osx) \/ Contains(Lower(name), S_macos)

\* mutant: a later linux match replaces the one already taken
TakeLinux_LastWins(fb, run) ==
    IF NameIsLinux(run.name) THEN DictSet(fb, S_linux, run) ELSE fb

\* the linux test and assignment of the loop body
TakeLinux(fb, run) ==
    IF NameIsLinux(run.name) /\ ~DictHas(fb, S_linux)
    THEN DictSet(fb, S_linux, run)
    ELSE fb

\* the osx/macos test and assignment of the loop body
TakeOsx(fb, run) ==
    IF NameIsOsx(run.name) /\ ~DictHas(fb, S_osx)
    THEN DictSet(fb, S_osx, run)
    ELSE fb

\* one iteration of the loop body, up to the break test
FindStep(fb, run) ==
    IF RunIsSkipped(run) THEN fb ELSE TakeOsx(TakeLinux(fb, run), run)

\* the break test; a skipped run continues before reaching it
FoundBoth(fb, run) == ~RunIsSkipped(run) /\ Len(fb) >= 2

\* the whole function: the loop from position i with dict fb
RECURSIVE FindFrom(_, _, _)
FindFrom(runs, i, fb) ==
    IF i > Len(runs) THEN fb
    ELSE IF FoundBoth(FindStep(fb, runs[i]), runs[i])
         THEN FindStep(fb, runs[i])
         ELSE FindFrom(runs, i + 1, FindStep(fb, runs[i]))

find_failed_azure_builds(runs) == FindFrom(runs, 1, <<>>)

SelInit ==
    /\ check_runs \in SeqUpTo(SelectRuns, MaxRuns)
    /\ idx = 1
    /\ failed_builds = <<>>
    /\ sel_pc = "loop"

\* one iteration of "for run in check_runs", the break included
SelectIter ==
    /\ sel_pc = "loop"
    /\ idx <= Len(check_runs)
    /\ failed_builds' = FindStep(failed_builds, check_runs[idx])
    /\ IF FoundBoth(failed_builds', check_runs[idx])
       THEN sel_pc' = "done" /\ idx' = idx
       ELSE sel_pc' = "loop" /\ idx' = idx + 1
    /\ UNCHANGED <<check_runs, selOthers>>

\* the loop ran off the end of the list: return failed_builds
SelectReturn ==
    /\ sel_pc = "loop"
    /\ idx > Len(check_runs)
    /\ sel_pc' = "done"
    /\ UNCHANGED <<check_runs, idx, failed_builds, selOthers>>

SelNext == SelectIter \/ SelectReturn

InitSelect == SelInit /\ FetchIdle /\ PrIdle /\ DetIdle /\ YmlIdle /\ ValIdle /\ MainIdle /\ BnIdle

SpecSelect == InitSelect /\ [][SelNext]_vars

(***************************************************************************)
(* get_azure_build_logs                                                    *)
(*                                                                         *)
(* The answer to the listing request is a record: ok says whether the      *)
(* request and the decoding of its body succeeded, value is the list of    *)
(* log descriptors.  A descriptor says whether it has a url, whether the   *)
(* download of that url succeeds, and what it then returns.                *)
(***************************************************************************)
LogContents == {<<>>, <<"a">>, <<"b">>}

Descriptors ==
    {[url |-> FALSE, ok |-> FALSE, content |-> <<>>],
     [url |-> TRUE, ok |-> FALSE, content |-> <<>>]}
    \cup {[url |-> TRUE, ok |-> TRUE, content |-> c] : c \in LogContents}

Listings ==
    {[ok |-> FALSE, value |-> <<>>]}
    \cup {[ok |-> TRUE, value |-> v] : v \in SeqUpTo(Descriptors, MaxSegs)}

\* "\n".join(list)
RECURSIVE Join(_)
Join(list) ==
    IF Len(list) = 0 THEN <<>>
    ELSE IF Len(list) = 1 THEN list[1]
    ELSE list[1] \o <<"\n">> \o Join(Tail(list))

\* download_content(log_url) is called and raises
DownloadRaises(log) == log.url /\ ~log.ok

\* mutant: the loop body has no try/except of its own
InnerExceptCatches_Nothing(log) == FALSE

\* the inner "except Exception: continue" catches what the download raises
InnerExceptCatches(log) == TRUE

\* the loop body: logs_content after the descriptor log
FetchStep(lc, log) ==
    IF log.url /\ log.ok THEN Append(lc, log.content) ELSE lc

\* the test and return after the loop; falling through returns None
FetchResult(lc) == IF lc # <<>> THEN Some(Join(lc)) ELSE None

\* the loop from position i, as one value
RECURSIVE FetchFrom(_, _, _)
FetchFrom(value, i, lc) ==
    IF i > Len(value) THEN FetchResult(lc)
    ELSE IF DownloadRaises(value[i]) /\ ~InnerExceptCatches(value[i])
         THEN None
         ELSE FetchFrom(value, i + 1, FetchStep(lc, value[i]))

\* the whole function
get_azure_build_logs(l) == IF ~l.ok THEN None ELSE FetchFrom(l.value, 1, <<>>)

FetchInit ==
    /\ listing \in Listings
    /\ seg_i = 0
    /\ logs_content = <<>>
    /\ fetch_ret = None
    /\ fetch_pc = "list"

\* the listing request; its failure is caught by the outer except
FetchList ==
    /\ fetch_pc = "list"
    /\ IF listing.ok
       THEN fetch_pc' = "loop" /\ seg_i' = 1
       ELSE fetch_pc' = "done" /\ seg_i' = seg_i
    /\ UNCHANGED <<listing, logs_content, fetch_ret, fetchOthers>>

\* one iteration of 'for log in data.get("value", [])'
FetchIter ==
    /\ fetch_pc = "loop"
    /\ seg_i <= Len(listing.value)
    /\ IF DownloadRaises(listing.value[seg_i])
          /\ ~InnerExceptCatches(listing.value[seg_i])
       THEN /\ fetch_pc' = "done"
            /\ UNCHANGED <<seg_i, logs_content>>
       ELSE /\ logs_content' = FetchStep(logs_content, listing.value[seg_i])
            /\ seg_i' = seg_i + 1
            /\ UNCHANGED fetch_pc
    /\ UNCHANGED <<listing, fetch_ret, fetchOthers>>

\* after the loop: return the joined contents, or None
FetchReturn ==
    /\ fetch_pc = "loop"
    /\ seg_i > Len(listing.value)
    /\ fetch_ret' = FetchResult(logs_content)
    /\ fetch_pc' = "done"
    /\ UNCHANGED <<listing, seg_i, logs_content, fetchOthers>>

FetchNext == FetchList \/ FetchIter \/ FetchReturn

InitFetch == FetchInit /\ SelIdle /\ PrIdle /\ DetIdle /\ YmlIdle /\ ValIdle /\ MainIdle /\ BnIdle

SpecFetch == InitFetch /\ [][FetchNext]_vars

(***************************************************************************)
(* Claims about get_azure_build_logs.                                      *)
(***************************************************************************)
\* the descriptors whose download succeeds, in listing order
Downloaded(l) == SelectSeq(l.value, LAMBDA d : d.url /\ d.ok)

\* the contents of a list of descriptors, with a newline between neighbours
RECURSIVE NewlineSeparated(_)
NewlineSeparated(ds) ==
    IF ds = <<>> THEN <<>>
    ELSE IF Len(ds) = 1 THEN ds[1].content
    ELSE NewlineSeparated(SubSeq(ds, 1, Len(ds) - 1))
            \o <<"\n">> \o ds[Len(ds)].content

\* C3: the function returns None exactly when the listing request failed or
\* no segment was downloaded; otherwise it returns the contents of the
\* downloaded segments, in listing order, separated by newlines, whatever
\* segments failed before, between or after them.
C3_PartialSuccessIsSuccess ==
    fetch_pc = "done" =>
        IF ~listing.ok \/ Downloaded(listing) = <<>>
        THEN fetch_ret = None
        ELSE fetch_ret = Some(NewlineSeparated(Downloaded(listing)))

\* a download failed between two that succeeded, and both contents came back
C3_Witness ==
    /\ fetch_pc = "done"
    /\ listing.ok
    /\ Len(listing.value) = 3
    /\ listing.value[1].ok
    /\ DownloadRaises(listing.value[2])
    /\ listing.value[3].ok
    /\ fetch_ret = Some(<<"a", "\n", "b">>)

(***************************************************************************)
(* Regular expressions, as re.match and re.search apply them.              *)
(***************************************************************************)
DigitChars == <<"0", "1", "2", "3", "4", "5", "6", "7", "8", "9">>

\* \d
IsDigit(c) == \E i \in 1..Len(DigitChars) : DigitChars[i] = c

DigitVal(c) == (CHOOSE i \in 1..Len(DigitChars) : DigitChars[i] = c) - 1

\* int(s) for a string of digits
RECURSIVE ToInt(_)
ToInt(ds) ==
    IF ds = <<>> THEN 0
    ELSE ToInt(SubSeq(ds, 1, Len(ds) - 1)) * 10 + DigitVal(ds[Len(ds)])

\* the position of the first "/" at or after i, 0 if there is none
FirstSlashFrom(s, i) ==
    IF \E j \in i..Len(s) : s[j] = "/"
    THEN CHOOSE j \in i..Len(s) :
            /\ s[j] = "/"
            /\ \A k \in i..(j - 1) : s[k] # "/"
    ELSE 0

\* the last position of the longest run of digits that starts at i
\* (i - 1 if s[i] is no digit): what the greedy \d+ consumes
RECURSIVE DigitRunEnd(_, _)
DigitRunEnd(s, i) ==
    IF i <= Len(s) /\ IsDigit(s[i]) THEN DigitRunEnd(s, i + 1) ELSE i - 1

\* re.match(lit ([^/]+)/([^/]+) tail, s): the two groups and the position
\* after tail, or None.  [^/]+ is followed by a literal "/", so each group
\* is the whole non-empty segment up to the next "/".
MatchTwoSegments(s, lit, tail) ==
    IF ~StartsWithAt(s, 1, lit) THEN None
    ELSE LET a  == Len(lit) + 1
             s1 == FirstSlashFrom(s, a)
         IN  IF s1 = 0 \/ s1 = a THEN None
             ELSE LET s2 == FirstSlashFrom(s, s1 + 1)
                  IN  IF s2 = 0 \/ s2 = s1 + 1 THEN None
                      ELSE IF ~StartsWithAt(s, s2, tail) THEN None
                      ELSE Some([g1 |-> SubSeq(s, a, s1 - 1),
                                 g2 |-> SubSeq(s, s1 + 1, s2 - 1),
                                 end |-> s2 + Len(tail)])

\* re.search(lit (\d+), s): the digits of the leftmost match, or None
SearchLiteralDigits(s, lit) ==
    LET hits == {i \in 1..Len(s) :
                    /\ StartsWithAt(s, i, lit)
                    /\ i + Len(lit) <= Len(s)
                    /\ IsDigit(s[i + Len(lit)])}
    IN  IF hits = {} THEN None
        ELSE LET i == CHOOSE h \in hits : \A g \in hits : h <= g
             IN  Some(SubSeq(s, i + Len(lit), DigitRunEnd(s, i + Len(lit))))

(***************************************************************************)
(* parse_github_pr_url                                                     *)
(***************************************************************************)
L_github == <<"h","t","t","p","s",":","/","/","g","i","t","h","u","b",".","c","o","m","/">>
L_pull   == <<"/","p","u","l","l","/">>

\* re.match(r"https://github\.com/([^/]+)/([^/]+)/pull/(\d+)", url):
\* match.groups(), or None
PrMatch(url) ==
    LET m == MatchTwoSegments(url, L_github, L_pull)
    IN  IF m = None THEN None
        ELSE LET e == DigitRunEnd(url, m[1].end)
             IN  IF e < m[1].end THEN None
                 ELSE Some(<<m[1].g1, m[1].g2, SubSeq(url, m[1].end, e)>>)

\* the whole function: (owner, repo, int(pr_str)), None for ValueError
parse_github_pr_url(url) ==
    LET m == PrMatch(url)
    IN  IF m = None THEN None
        ELSE Some(<<m[1][1], m[1][2], ToInt(m[1][3])>>)

\* The pull-request URLs drawn: prefix, owner, "/", repo, middle, number
\* and a suffix of at most MaxSuffix characters.
L_github_http == <<"h","t","t","p",":","/","/","g","i","t","h","u","b",".","c","o","m","/">>
L_issues      == <<"/","i","s","s","u","e","s","/">>
L_feedstock   == <<"-","f","e","e","d","s","t","o","c","k">>

PrPrefixes == {L_github, L_github_http, <<" ">> \o L_github}

PrOwners == {<<>>, <<"o">>, <<"o", ":", " ", "x">>}

PrRepos == {<<>>, <<"r">>, <<"r">> \o L_feedstock}

PrMiddles == {L_pull, L_issues}

PrNumbers == {<<>>, <<"5">>, <<"5", "2">>, <<"0", "7">>}

SuffixChars == {"/", "?", "9", ":", " ", "#"}

PrUrls ==
    {p \o o \o <<"/">> \o r \o m \o n \o x :
        p \in PrPrefixes, o \in PrOwners, r \in PrRepos, m \in PrMiddles,
        n \in PrNumbers, x \in SeqUpTo(SuffixChars, MaxSuffix)}

PrInit ==
    /\ pr_url \in PrUrls
    /\ pr_ret = None
    /\ pr_pc = "call"

\* the call returns the tuple
ParsePrReturns ==
    /\ pr_pc = "call"
    /\ parse_github_pr_url(pr_url) # None
    /\ pr_ret' = parse_github_pr_url(pr_url)
    /\ pr_pc' = "returned"
    /\ UNCHANGED <<pr_url, prOthers>>

\* the call raises ValueError
ParsePrRaises ==
    /\ pr_pc = "call"
    /\ parse_github_pr_url(pr_url) = None
    /\ pr_pc' = "raised"
    /\ UNCHANGED <<pr_url, pr_ret, prOthers>>

(***************************************************************************)
(* extract_azure_log_url_from_details and parse_azure_details_url          *)
(*                                                                         *)
(* cli.py holds the first; the tests import the second from cli.py, which  *)
(* does not define it.  Both apply the same two patterns; the second also  *)
(* looks for jobId and returns the parts instead of the log-list URL.      *)
(***************************************************************************)
L_azure   == <<"h","t","t","p","s",":","/","/","d","e","v",".","a","z","u","r","e",".","c","o","m","/">>
L_build   == <<"/","_","b","u","i","l","d">>
L_buildId == <<"b","u","i","l","d","I","d","=">>
L_jobId   == <<"j","o","b","I","d","=">>
L_apis    == <<"/","_","a","p","i","s","/","b","u","i","l","d","/","b","u","i","l","d","s","/">>
L_logs    == <<"/","l","o","g","s">>

\* mutant: the pattern is buildId=(\d), one digit
DetailsBuildId_OneDigit(url) ==
    LET m == SearchLiteralDigits(url, L_buildId)
    IN  IF m = None THEN None ELSE Some(SubSeq(m[1], 1, 1))

\* re.search(r"buildId=(\d+)", details_url): group 1, or None
DetailsBuildId(url) == SearchLiteralDigits(url, L_buildId)

\* re.match(r"https://dev\.azure\.com/([^/]+)/([^/]+)/_build", details_url)
DetailsOrgProject(url) == MatchTwoSegments(url, L_azure, L_build)

\* the whole function: the log-list URL, or None
extract_azure_log_url_from_details(url) ==
    IF DetailsBuildId(url) = None THEN None
    ELSE IF DetailsOrgProject(url) = None THEN None
    ELSE Some(L_azure \o DetailsOrgProject(url)[1].g1 \o <<"/">>
                \o DetailsOrgProject(url)[1].g2 \o L_apis
                \o DetailsBuildId(url)[1] \o L_logs)

\* the last position of the longest run of characters other than "&"
\* that starts at i
RECURSIVE ValueEnd(_, _)
ValueEnd(s, i) ==
    IF i <= Len(s) /\ s[i] # "&" THEN ValueEnd(s, i + 1) ELSE i - 1

\* the jobId query parameter: the value after the leftmost "jobId=" that
\* has one, or None
DetailsJobId(url) ==
    LET hits == {i \in 1..Len(url) :
                    /\ StartsWithAt(url, i, L_jobId)
                    /\ ValueEnd(url, i + Len(L_jobId)) >= i + Len(L_jobId)}
    IN  IF hits = {} THEN None
        ELSE LET i == CHOOSE h \in hits : \A g \in hits : h <= g
             IN  Some(SubSeq(url, i + Len(L_jobId), ValueEnd(url, i + Len(L_jobId))))

\* (org, project, build_id, job_id), or None
parse_azure_details_url(url) ==
    IF DetailsBuildId(url) = None THEN None
    ELSE IF DetailsOrgProject(url) = None THEN None
    ELSE Some(<<DetailsOrgProject(url)[1].g1, DetailsOrgProject(url)[1].g2,
                DetailsBuildId(url)[1], DetailsJobId(url)>>)

\* The details URLs drawn: host prefix, org, "/", project, a path marker,
\* "/results?" and at most MaxParams query parameters joined by "&".
L_example    == <<"h","t","t","p","s",":","/","/","e","x","a","m","p","l","e",".","c","o","m","/">>
L_azure_http == <<"h","t","t","p",":","/","/","d","e","v",".","a","z","u","r","e",".","c","o","m","/">>
L_results    == <<"/","r","e","s","u","l","t","s","?">>

DetPrefixes == {L_azure, L_example, L_azure_http}

DetOrgs == {<<>>, <<"g">>}

DetProjects == {<<>>, <<"p">>}

DetMarkers == {L_build, <<"/", "_", "g", "i", "t">>}

\* query parameters, each a <<name, value>> pair
DetParams ==
    {<<"buildId", <<"1", "2">>>>, <<"buildId", <<"3">>>>, <<"buildId", <<>>>>,
     <<"view", <<"l", "o", "g", "s">>>>,
     <<"jobId", <<"j", "7">>>>, <<"jobId", <<"k">>>>}

ParamName(n) ==
    CASE n = "buildId" -> <<"b","u","i","l","d","I","d">>
      [] n = "jobId"   -> <<"j","o","b","I","d">>
      [] n = "view"    -> <<"v","i","e","w">>

\* the query string of a list of parameters
RECURSIVE QueryString(_)
QueryString(ps) ==
    IF ps = <<>> THEN <<>>
    ELSE ParamName(ps[1][1]) \o <<"=">> \o ps[1][2]
            \o (IF Len(ps) > 1 THEN <<"&">> ELSE <<>>) \o QueryString(Tail(ps))

DetPartsSet ==
    {[pre |-> p, org |-> o, project |-> j, marker |-> m, params |-> q] :
        p \in DetPrefixes, o \in DetOrgs, j \in DetProjects, m \in DetMarkers,
        q \in SeqUpTo(DetParams, MaxParams)}

DetUrl(x) ==
    x.pre \o x.org \o <<"/">> \o x.project \o x.marker \o L_results
        \o QueryString(x.params)

DetInit ==
    /\ det_parts \in DetPartsSet
    /\ details_url = DetUrl(det_parts)
    /\ det_ret = None
    /\ det_api = None
    /\ det_pc = "call"

ParseDetails ==
    /\ det_pc = "call"
    /\ det_ret' = parse_azure_details_url(details_url)
    /\ det_pc' = "parsed"
    /\ UNCHANGED <<details_url, det_parts, det_api, detOthers>>

ExtractLogUrl ==
    /\ det_pc = "parsed"
    /\ det_api' = extract_azure_log_url_from_details(details_url)
    /\ det_pc' = "done"
    /\ UNCHANGED <<details_url, det_parts, det_ret, detOthers>>

DetNext == ParseDetails \/ ExtractLogUrl

InitDet == DetInit /\ SelIdle /\ FetchIdle /\ PrIdle /\ YmlIdle /\ ValIdle /\ MainIdle /\ BnIdle

SpecDet == InitDet /\ [][DetNext]_vars

(***************************************************************************)
(* Claims about parse_azure_details_url.                                   *)
(***************************************************************************)
\* the parameters of the list ps that are named n and have a value made of
\* digits only (digits = TRUE) or any non-empty value (digits = FALSE)
ParamsNamed(ps, n, digits) ==
    SelectSeq(ps, LAMBDA q :
        /\ q[1] = n
        /\ q[2] # <<>>
        /\ digits => \A k \in 1..Len(q[2]) : IsDigit(q[2][k]))

\* the URL begins with https://dev.azure.com/<org>/<project>/_build
HasAzureShape(x) ==
    /\ x.pre = L_azure
    /\ x.org # <<>>
    /\ x.project # <<>>
    /\ x.marker = L_build

PlainNode(t) == Some([style |-> "plain", text |-> t])

BlockNode(t) == Some([style |-> "block", text |-> t])

MappingDoc(src, inp, mmo, eo) ==
    [kind |-> "mapping", source |-> src, input |-> inp,
     most_minimal_output |-> mmo, expected_output |-> eo]

\* str.rstrip(" ") and str.lstrip(" ")
RECURSIVE RStrip(_)
RStrip(t) ==
    IF t # <<>> /\ t[Len(t)] = " " THEN RStrip(SubSeq(t, 1, Len(t) - 1)) ELSE t

RECURSIVE LStrip(_)
LStrip(t) == IF t # <<>> /\ t[1] = " " THEN LStrip(Tail(t)) ELSE t

\* The scanner on a plain scalar, from position i: ":" followed by a space
\* or the end of the line is a mapping indicator, which is an error inside
\* a value ("mapping values are not allowed here"); "#" at the start or
\* after a space begins a comment, which ends the scalar.
RECURSIVE ScanPlain(_, _)
ScanPlain(t, i) ==
    IF i > Len(t) THEN [ok |-> TRUE, val |-> LStrip(RStrip(t))]
    ELSE IF t[i] = ":" /\ (i = Len(t) \/ t[i + 1] = " ") THEN [ok |-> FALSE]
    ELSE IF t[i] = "#" /\ (i = 1 \/ t[i - 1] = " ")
         THEN [ok |-> TRUE, val |-> LStrip(RStrip(SubSeq(t, 1, i - 1)))]
    ELSE ScanPlain(t, i + 1)

\* The value of a plain scalar: null when empty, an int when all digits,
\* a str otherwise (the texts drawn hold no other YAML type)
ResolvePlain(v) ==
    IF v = <<>> THEN [type |-> "null"]
    ELSE IF \A k \in 1..Len(v) : IsDigit(v[k]) THEN [type |-> "int", val |-> ToInt(v)]
    ELSE [type |-> "str", val |-> v]

\* The value of a literal block scalar: its line and the final newline
BlockValue(t) ==
    [type |-> "str", val |-> IF t = <<>> THEN <<>> ELSE t \o <<"\n">>]

\* a key's node loads
NodeLoads(n) ==
    n = None \/ n[1].style = "block" \/ ScanPlain(n[1].text, 1).ok

\* the value a key's node loads to, None for a key that is not there
NodeValue(n) ==
    IF n = None THEN None
    ELSE IF n[1].style = "block" THEN Some(BlockValue(n[1].text))
    ELSE Some(ResolvePlain(ScanPlain(n[1].text, 1).val))

\* yaml.safe_load(f): ok is FALSE when it raises yaml.YAMLError
YamlSafeLoad(doc) ==
    IF doc.kind = "broken" THEN [ok |-> FALSE]
    ELSE IF doc.kind = "other" THEN [ok |-> TRUE, data |-> [kind |-> "other"]]
    ELSE IF ~(/\ NodeLoads(doc.source)
              /\ NodeLoads(doc.input)
              /\ NodeLoads(doc.most_minimal_output)
              /\ NodeLoads(doc.expected_output))
         THEN [ok |-> FALSE]
    ELSE [ok |-> TRUE,
          data |-> [kind |-> "mapping",
                    source |-> NodeValue(doc.source),
                    input |-> NodeValue(doc.input),
                    most_minimal_output |-> NodeValue(doc.most_minimal_output),
                    expected_output |-> NodeValue(doc.expected_output)]]

L_http     == <<"h","t","t","p",":","/","/">>
L_https    == <<"h","t","t","p","s",":","/","/">>
L_errorlog == <<"e","r","r","o","r",".","l","o","g">>

\* the host of a URL whose scheme and "://" end before position i: the
\* characters up to the next "/", "?" or "#"
RECURSIVE HostEnd(_, _)
HostEnd(u, i) ==
    IF i <= Len(u) /\ u[i] \notin {"/", "?", "#"} THEN HostEnd(u, i + 1) ELSE i - 1

UrlHasHost(u, lit) ==
    /\ StartsWithAt(u, 1, lit)
    /\ HostEnd(u, Len(lit) + 1) >= Len(lit) + 1
    /\ \A k \in (Len(lit) + 1)..HostEnd(u, Len(lit) + 1) : u[k] # " "

\* mutant: the field is an AnyUrl, any scheme will do
IsHttpUrl_AnyScheme(u) ==
    \E i \in 1..Len(u) :
        /\ StartsWithAt(u, i, <<":", "/", "/">>)
        /\ i > 1
        /\ UrlHasHost(u, SubSeq(u, 1, i + 2))

\* pydantic's HttpUrl on a str: the scheme is http or https and there is a
\* host (its limit on the length is beyond the URLs drawn)
IsHttpUrl(u) == UrlHasHost(u, L_http) \/ UrlHasHost(u, L_https)

\* source: HttpUrl
SourceOk(v) == v # None /\ v[1].type = "str" /\ IsHttpUrl(v[1].val)

\* input: str, pattern ^error\.log$
InputOk(v) == v # None /\ v[1].type = "str" /\ v[1].val = L_errorlog

\* most_minimal_output and expected_output: str, min_length=1
OutputOk(v) == v # None /\ v[1].type = "str" /\ Len(v[1].val) >= 1

\* mutant: validation stops at the first field in error
FieldErrors_FirstOnly(data) ==
    IF ~SourceOk(data.source) THEN <<"source">>
    ELSE IF ~InputOk(data.input) THEN <<"input">>
    ELSE IF ~OutputOk(data.most_minimal_output) THEN <<"most_minimal_output">>
    ELSE IF ~OutputOk(data.expected_output) THEN <<"expected_output">>
    ELSE <<>>

\* InputYaml.model_validate(data) on a mapping: the fields of the
\* ValidationError, one per field in error, in the order of the class
FieldErrors(data) ==
    (IF SourceOk(data.source) THEN <<>> ELSE <<"source">>)
    \o (IF InputOk(data.input) THEN <<>> ELSE <<"input">>)
    \o (IF OutputOk(data.most_minimal_output) THEN <<>> ELSE <<"most_minimal_output">>)
    \o (IF OutputOk(data.expected_output) THEN <<>> ELSE <<"expected_output">>)

\* The messages, as lists of their parts.  The empty list is "".
ReadError(cause) == <<"Error reading file: ", cause>>

SchemaError(fields) == <<"validation errors for InputYaml">> \o fields

\* the whole function: (is_valid, error_message)
validate_input_yml(file) ==
    IF ~file.readable THEN <<FALSE, ReadError("OSError")>>
    ELSE IF ~YamlSafeLoad(file.doc).ok THEN <<FALSE, ReadError("YAMLError")>>
    ELSE IF YamlSafeLoad(file.doc).data.kind # "mapping"
         THEN <<FALSE, SchemaError(<<"InputYaml">>)>>
    ELSE IF FieldErrors(YamlSafeLoad(file.doc).data) = <<>> THEN <<TRUE, <<>>>>
    ELSE <<FALSE, SchemaError(FieldErrors(YamlSafeLoad(file.doc).data))>>

(***************************************************************************)
(* The input.yml files drawn: what each key holds is drawn by kind.        *)
(***************************************************************************)
SourceKinds == {"absent", "https", "http", "ftp", "relative", "nohost", "null"}

InputKinds == {"absent", "error.log", "other"}

OutputKinds == {"absent", "block", "plain", "empty", "int"}

SourceNode(k) ==
    CASE k = "absent"   -> None
      [] k = "https"    -> PlainNode(L_github \o <<"o", "/", "r">> \o L_pull \o <<"5">>)
      [] k = "http"     -> PlainNode(L_github_http \o <<"o">>)
      [] k = "ftp"      -> PlainNode(<<"f","t","p",":","/","/","e","x","a","m","p","l","e",".","c","o","m","/","x">>)
      [] k = "relative" -> PlainNode(<<"n","o","t","-","a","-","u","r","l">>)
      [] k = "nohost"   -> PlainNode(L_https)
      [] k = "null"     -> PlainNode(<<>>)

InputNode(k) ==
    CASE k = "absent"    -> None
      [] k = "error.log" -> PlainNode(L_errorlog)
      [] k = "other"     -> PlainNode(L_errorlog \o <<".", "g", "z">>)

OutputNode(k) ==
    CASE k = "absent" -> None
      [] k = "block"  -> BlockNode(<<"e", "r", "r">>)
      [] k = "plain"  -> PlainNode(<<"e">>)
      [] k = "empty"  -> BlockNode(<<>>)
      [] k = "int"    -> PlainNode(<<"4", "2">>)

YmlKinds ==
    {[readable |-> FALSE], [readable |-> TRUE, doc |-> "broken"],
     [readable |-> TRUE, doc |-> "other"]}
    \cup {[readable |-> TRUE, doc |-> "mapping", source |-> a, input |-> b,
           most_minimal_output |-> c, expected_output |-> d] :
            a \in SourceKinds, b \in InputKinds, c \in OutputKinds, d \in OutputKinds}

YmlFile(k) ==
    IF ~k.readable THEN [readable |-> FALSE, doc |-> [kind |-> "broken"]]
    ELSE IF k.doc # "mapping" THEN [readable |-> TRUE, doc |-> [kind |-> k.doc]]
    ELSE [readable |-> TRUE,
          doc |-> MappingDoc(SourceNode(k.source), InputNode(k.input),
                             OutputNode(k.most_minimal_output),
                             OutputNode(k.expected_output))]

YmlInit ==
    /\ yml_kind \in YmlKinds
    /\ yml_file = YmlFile(yml_kind)
    /\ yml_ret = <<>>
    /\ yml_pc = "call"

ValidateInputYml ==
    /\ yml_pc = "call"
    /\ yml_ret' = validate_input_yml(yml_file)
    /\ yml_pc' = "done"
    /\ UNCHANGED <<yml_kind, yml_file, ymlOthers>>

YmlNext == ValidateInputYml

InitYml == YmlInit /\ SelIdle /\ FetchIdle /\ PrIdle /\ DetIdle /\ ValIdle /\ MainIdle /\ BnIdle

SpecYml == InitYml /\ [][YmlNext]_vars

(***************************************************************************)
(* Claims about validate_input_yml.                                        *)
(***************************************************************************)
\* the kinds of value that meet the schema, as the claim states it and as
\* the code has it
UrlSourceKinds == {"https", "http", "ftp"}

HttpSourceKinds == {"https", "http"}

GoodOutputKinds == {"block", "plain"}

\* the fields of a mapping of kind k that violate the schema, given the
\* kinds of source that are good
ViolatedFields(k, goodSources) ==
    {f \in {"source", "input", "most_minimal_output", "expected_output"} :
        \/ f = "source" /\ k.source \notin goodSources
        \/ f = "input" /\ k.input # "error.log"
        \/ f = "most_minimal_output" /\ k.most_minimal_output \notin GoodOutputKinds
        \/ f = "expected_output" /\ k.expected_output \notin GoodOutputKinds}

\* the statement about validate_input_yml, given the kinds of source that
\* are good
ValidateStatement(goodSources) ==
    yml_pc = "done" =>
        IF ~yml_kind.readable \/ yml_kind.doc = "broken"
        THEN /\ yml_ret[1] = FALSE
             /\ yml_ret[2] # <<>>
             /\ yml_ret[2][1] = "Error reading file: "
        ELSE IF yml_kind.doc = "other"
        THEN yml_ret[1] = FALSE /\ yml_ret[2] # <<>>
        ELSE IF ViolatedFields(yml_kind, goodSources) = {}
        THEN yml_ret = <<TRUE, <<>>>>
        ELSE /\ yml_ret[1] = FALSE
             /\ yml_ret[2] # <<>>
             /\ {yml_ret[2][i] : i \in 2..Len(yml_ret[2])}
                   = ViolatedFields(yml_kind, goodSources)

\* C9 as stated: valid exactly when the file is read and parsed, source is
\* an absolute URL with scheme and host, input is error.log and both outputs
\* have length at least 1; otherwise invalid with a message that starts
\* with the read-error text or covers every violated field.
C9_AsStated == ValidateStatement(UrlSourceKinds)

\* C9, amended: the same, with source an absolute http or https URL with a
\* host, and both outputs strings.
C9_ValidIffSchemaHolds == ValidateStatement(HttpSourceKinds)

\* a file with two fields in violation, both reported
C9_Witness ==
    /\ yml_pc = "done"
    /\ yml_kind.readable
    /\ yml_kind.doc = "mapping"
    /\ yml_kind.source = "relative"
    /\ yml_kind.expected_output = "empty"
    /\ yml_ret = <<FALSE, SchemaError(<<"source", "expected_output">>)>>

(***************************************************************************)
(* create_corpus_entry: the input.yml it writes                            *)
(***************************************************************************)
L_todo_minimal  == <<"#"," ","T","O","D","O",":"," ","F","i","l","l"," ","i","n"," ","t","h","e"," ","m","i","n","i","m","a","l"," ","e","r","r","o","r"," ","m","e","s","s","a","g","e">>
L_todo_expected == <<"#"," ","T","O","D","O",":"," ","F","i","l","l"," ","i","n"," ","t","h","e"," ","e","x","p","e","c","t","e","d"," ","p","a","r","s","e","d"," ","o","u","t","p","u","t">>

\* input_yml_content: pr_url goes on the source line as it is
InputYmlContent(url) ==
    MappingDoc(PlainNode(url), PlainNode(L_errorlog),
               BlockNode(L_todo_minimal), BlockNode(L_todo_expected))

\* what a person may put in place of a TODO line
HandTexts == {<<"e", "r", "r">>, <<"E", ":", " ", "x">>}

\* input_yml_path.write_text(input_yml_content) for the URL that parsed
WriteInputYml ==
    /\ pr_pc = "returned"
    /\ yml_pc = "off"
    /\ yml_file' = [readable |-> TRUE, doc |-> InputYmlContent(pr_url)]
    /\ yml_kind' = "stub"
    /\ yml_pc' = "call"
    /\ UNCHANGED <<yml_ret, prVars, selVars, fetchVars, detVars, valVars, mainVars, bnVars>>

\* the two output fields are filled in by hand
HandFill ==
    /\ yml_pc = "call"
    /\ yml_kind = "stub"
    /\ \E a, b \in HandTexts :
          yml_file' =
             [yml_file EXCEPT !.doc.most_minimal_output = BlockNode(a),
                              !.doc.expected_output = BlockNode(b)]
    /\ yml_kind' = "filled"
    /\ UNCHANGED <<yml_ret, yml_pc, prVars, selVars, fetchVars, detVars, valVars, mainVars, bnVars>>

PrNext ==
    ParsePrReturns \/ ParsePrRaises \/ WriteInputYml \/ HandFill \/ ValidateInputYml

InitPr == PrInit /\ SelIdle /\ FetchIdle /\ DetIdle /\ YmlIdle /\ ValIdle /\ MainIdle /\ BnIdle

SpecPr == InitPr /\ [][PrNext]_vars

(***************************************************************************)
(* Claims about parse_github_pr_url.                                       *)
(***************************************************************************)
\* url is, in full, https://github.com/<owner>/<repo>/pull/<number>, with
\* the owner before position i, the repo before position j
IsFullPrUrl(url, i, j) ==
    /\ StartsWithAt(url, 1, L_github)
    /\ Len(L_github) + 1 < i
    /\ i + 1 < j
    /\ \A k \in (Len(L_github) + 1)..(j - 1) : (url[k] = "/") <=> (k = i)
    /\ StartsWithAt(url, j, L_pull)
    /\ j + Len(L_pull) <= Len(url)
    /\ \A k \in (j + Len(L_pull))..Len(url) : IsDigit(url[k])

\* C6: the parser returns exactly on the strings that are in full of the
\* form https://github.com/<owner>/<repo>/pull/<number>, with the owner,
\* repo and number of the string, and raises on every other string.
C6_AcceptsExactlyFullForm ==
    /\ pr_pc = "returned" =>
          \E i, j \in 1..Len(pr_url) :
              /\ IsFullPrUrl(pr_url, i, j)
              /\ pr_ret[1][1] = SubSeq(pr_url, Len(L_github) + 1, i - 1)
              /\ pr_ret[1][2] = SubSeq(pr_url, i + 1, j - 1)
              /\ pr_ret[1][3] = ToInt(SubSeq(pr_url, j + Len(L_pull), Len(pr_url)))
    /\ pr_pc = "raised" =>
          ~ \E i, j \in 1..Len(pr_url) : IsFullPrUrl(pr_url, i, j)

(***************************************************************************)
(* Claims about the writer and the validator together.                     *)
(***************************************************************************)
\* C10: for every URL the parser accepts, the input.yml the writer writes
\* is accepted by validate_input_yml, with its TODO lines untouched and
\* with both output fields filled in by hand.
C10_WrittenEntryValidates ==
    (pr_pc = "returned" /\ yml_pc = "done") => yml_ret = <<TRUE, <<>>>>

(***************************************************************************)
(* validate.main                                                           *)
(*                                                                         *)
(* A discovered file is a record of its path under corpus/ (the directory  *)
(* names that lead to its input.yml) and the kind of file found there.     *)
(***************************************************************************)
EntryDirs == {<<"a">>, <<"a", "b">>, <<"b">>, <<"b", "a">>}

CorpusKinds ==
    {[readable |-> TRUE, doc |-> "mapping", source |-> "https",
      input |-> "error.log", most_minimal_output |-> "block",
      expected_output |-> "block"],
     [readable |-> TRUE, doc |-> "mapping", source |-> "relative",
      input |-> "error.log", most_minimal_output |-> "block",
      expected_output |-> "block"],
     [readable |-> TRUE, doc |-> "broken"]}

CorpusFiles == {[path |-> d, kind |-> k] : d \in EntryDirs, k \in CorpusKinds}

\* what rglob may return: the files of a corpus, each path once, any order
Discoveries ==
    {fs \in SeqUpTo(CorpusFiles, MaxFiles) :
        \A i, j \in 1..Len(fs) : fs[i].path = fs[j].path => i = j}

\* str order on the path components that occur
PartRank(c) == CASE c = "a" -> 1 [] c = "b" -> 2 [] c = "input.yml" -> 3

\* Path.__lt__: the tuples of components compare as tuples do
RECURSIVE PartsLess(_, _)
PartsLess(x, y) ==
    IF y = <<>> THEN FALSE
    ELSE IF x = <<>> THEN TRUE
    ELSE IF x[1] # y[1] THEN PartRank(x[1]) < PartRank(y[1])
    ELSE PartsLess(Tail(x), Tail(y))

PathLess(f, g) ==
    PartsLess(f.path \o <<"input.yml">>, g.path \o <<"input.yml">>)

\* f put in its place in the sorted list fs
RECURSIVE InsertSorted(_, _)
InsertSorted(f, fs) ==
    IF fs = <<>> THEN <<f>>
    ELSE IF PathLess(f, fs[1]) THEN <<f>> \o fs
    ELSE <<fs[1]>> \o InsertSorted(f, Tail(fs))

\* mutant: the loop runs over input_files as rglob returned them
SortFiles_Unsorted(fs) == fs

\* sorted(input_files)
RECURSIVE SortFiles(_)
SortFiles(fs) ==
    IF fs = <<>> THEN <<>> ELSE InsertSorted(fs[1], SortFiles(Tail(fs)))

ValInit ==
    /\ corpus_exists \in BOOLEAN
    /\ input_files \in (IF corpus_exists THEN Discoveries ELSE {<<>>})
    /\ v_sorted = <<>>
    /\ v_i = 0
    /\ validated = <<>>
    /\ errors = <<>>
    /\ v_ret = None
    /\ v_pc = "start"

\* the corpus directory is not there: return 1
ValMissingDir ==
    /\ v_pc = "start"
    /\ ~corpus_exists
    /\ v_ret' = Some(1)
    /\ v_pc' = "done"
    /\ UNCHANGED <<corpus_exists, input_files, v_sorted, v_i, validated, errors, valOthers>>

\* no input.yml under it: warn and return 0
ValNoFiles ==
    /\ v_pc = "start"
    /\ corpus_exists
    /\ input_files = <<>>
    /\ v_ret' = Some(0)
    /\ v_pc' = "done"
    /\ UNCHANGED <<corpus_exists, input_files, v_sorted, v_i, validated, errors, valOthers>>

\* errors = [] and the loop begins over sorted(input_files)
ValBegin ==
    /\ v_pc = "start"
    /\ corpus_exists
    /\ input_files # <<>>
    /\ v_sorted' = SortFiles(input_files)
    /\ v_i' = 1
    /\ v_pc' = "loop"
    /\ UNCHANGED <<corpus_exists, input_files, validated, errors, v_ret, valOthers>>

\* one iteration: validate the file, append its error when it is invalid
ValIter ==
    /\ v_pc = "loop"
    /\ v_i <= Len(v_sorted)
    /\ validated' = Append(validated, v_sorted[v_i].path)
    /\ errors' =
          IF validate_input_yml(YmlFile(v_sorted[v_i].kind))[1] THEN errors
          ELSE Append(errors,
                      <<v_sorted[v_i].path,
                        validate_input_yml(YmlFile(v_sorted[v_i].kind))[2]>>)
    /\ v_i' = v_i + 1
    /\ UNCHANGED <<corpus_exists, input_files, v_sorted, v_ret, v_pc, valOthers>>

\* after the loop: print the errors and return 1, or return 0
ValReport ==
    /\ v_pc = "loop"
    /\ v_i > Len(v_sorted)
    /\ v_ret' = IF errors # <<>> THEN Some(1) ELSE Some(0)
    /\ v_pc' = "done"
    /\ UNCHANGED <<corpus_exists, input_files, v_sorted, v_i, validated, errors, valOthers>>

ValNext == ValMissingDir \/ ValNoFiles \/ ValBegin \/ ValIter \/ ValReport

InitVal == ValInit /\ SelIdle /\ FetchIdle /\ PrIdle /\ DetIdle /\ YmlIdle /\ MainIdle /\ BnIdle

SpecVal == InitVal /\ [][ValNext]_vars

(***************************************************************************)
(* Claims about validate.main.                                             *)
(***************************************************************************)
\* the discovered files that are not valid
InvalidFound ==
    {input_files[i].path : i \in {j \in 1..Len(input_files) :
                                    input_files[j].kind.doc # "mapping"
                                    \/ input_files[j].kind.source # "https"}}

AllFound == {input_files[i].path : i \in 1..Len(input_files)}

\* the paths of a list are in ascending path order
Ascending(ps) ==
    \A i, j \in 1..Len(ps) :
        i < j => PartsLess(ps[i] \o <<"input.yml">>, ps[j] \o <<"input.yml">>)

\* C8: main returns 1 when corpus/ does not exist, 0 when it holds no
\* input.yml, 1 when a discovered file is invalid and 0 when all are valid;
\* when it returns 1 for invalid files every discovered file was validated
\* and the report lists every invalid file, in ascending path order.
C8_ExitCodeAndReport ==
    v_pc = "done" =>
        /\ ~corpus_exists => v_ret = Some(1)
        /\ corpus_exists /\ input_files = <<>> => v_ret = Some(0)
        /\ corpus_exists /\ input_files # <<>> /\ InvalidFound = {} => v_ret = Some(0)
        /\ corpus_exists /\ InvalidFound # {} =>
              /\ v_ret = Some(1)
              /\ {validated[i] : i \in 1..Len(validated)} = AllFound
              /\ Len(validated) = Len(input_files)
              /\ {errors[i][1] : i \in 1..Len(errors)} = InvalidFound
              /\ Len(errors) = Cardinality(InvalidFound)
              /\ Ascending([i \in 1..Len(errors) |-> errors[i][1]])

\* rglob returned an invalid file first, a valid one second and a second
\* invalid one, which sorts before the first, last: all three were
\* validated and both invalid ones reported
C8_Witness ==
    /\ v_pc = "done"
    /\ Len(input_files) = 3
    /\ input_files[1].path \in InvalidFound
    /\ input_files[2].path \notin InvalidFound
    /\ input_files[3].path \in InvalidFound
    /\ PathLess(input_files[3], input_files[1])
    /\ Len(validated) = 3
    /\ Len(errors) = 2
    /\ v_ret = Some(1)

(***************************************************************************)
(* cli.main and the functions it calls that are not modelled above         *)
(***************************************************************************)
L_aarch64 == <<"a","a","r","c","h","6","4">>
L_arm64   == <<"a","r","m","6","4">>

B_linux_aarch64 == <<"l","i","n","u","x","_","a","a","r","c","h","6","4">>
B_linux_64      == <<"l","i","n","u","x","_","6","4">>
B_osx_arm64     == <<"o","s","x","_","a","r","m","6","4">>
B_osx_64        == <<"o","s","x","_","6","4">>

\* mutant: the name is searched as it is, not lower-cased
extract_build_name_NoLower(name, arch) ==
    IF arch = S_linux
    THEN IF Contains(name, L_aarch64) \/ Contains(name, L_arm64)
         THEN B_linux_aarch64 ELSE B_linux_64
    ELSE IF arch = S_osx
    THEN IF Contains(name, L_arm64) \/ Contains(name, L_aarch64)
         THEN B_osx_arm64 ELSE B_osx_64
    ELSE arch

extract_build_name_from_check_run_name(name, arch) ==
    IF arch = S_linux
    THEN IF Contains(Lower(name), L_aarch64) \/ Contains(Lower(name), L_arm64)
         THEN B_linux_aarch64 ELSE B_linux_64
    ELSE IF arch = S_osx
    THEN IF Contains(Lower(name), L_arm64) \/ Contains(Lower(name), L_aarch64)
         THEN B_osx_arm64 ELSE B_osx_64
    ELSE arch

\* str.replace(old, new), every occurrence, from position i on
RECURSIVE ReplaceFrom(_, _, _, _)
ReplaceFrom(t, i, old, new) ==
    IF i > Len(t) THEN <<>>
    ELSE IF StartsWithAt(t, i, old) THEN new \o ReplaceFrom(t, i + Len(old), old, new)
    ELSE <<t[i]>> \o ReplaceFrom(t, i + 1, old, new)

\* feedstock_name = repo.replace("-feedstock", "")
FeedstockName(repo) == ReplaceFrom(repo, 1, L_feedstock, <<>>)

\* str(n) for n >= 0
RECURSIVE IntToStr(_)
IntToStr(n) ==
    IF n < 10 THEN <<DigitChars[n + 1]>>
    ELSE IntToStr(n \div 10) \o <<DigitChars[(n % 10) + 1]>>

\* folder_name = f"{feedstock_name}-{pr_number}-{build_name}"
FolderName(feedstock_name, pr_number, build_name) ==
    feedstock_name \o <<"-">> \o IntToStr(pr_number) \o <<"-">> \o build_name

\* output_base = output_dir / category, with the defaults of the options
OutputBase == <<"corpus", "uncategorized">>

\* create_corpus_entry on the disk fs: the directory is made if it is not
\* there, and both files are written over what is there
create_corpus_entry(fs, output_dir, feedstock_name, pr_number, build_name, log_content, url) ==
    DictSet(fs, Append(output_dir, FolderName(feedstock_name, pr_number, build_name)),
            [error_log |-> log_content, input_yml |-> InputYmlContent(url)])

L_ph_download == <<"#"," ","C","o","u","l","d"," ","n","o","t"," ","d","o","w","n","l","o","a","d"," ","l","o","g","s"," ","a","u","t","o","m","a","t","i","c","a","l","l","y">>
L_ph_parse    == <<"#"," ","C","o","u","l","d"," ","n","o","t"," ","p","a","r","s","e"," ","A","z","u","r","e"," ","l","o","g"," ","U","R","L">>
L_ph_details  == <<"#"," ","A","z","u","r","e"," ","d","e","t","a","i","l","s"," ","U","R","L",":"," ">>
L_ph_manual   == <<"#"," ","P","l","e","a","s","e"," ","d","o","w","n","l","o","a","d"," ","m","a","n","u","a","l","l","y">>

\* the three-line placeholder body
Placeholder(first, url) ==
    first \o <<"\n">> \o L_ph_details \o url \o <<"\n">> \o L_ph_manual \o <<"\n">>

\* "if x:" for a str | None
Truthy(x) == x # None /\ x[1] # <<>>

\* mutant: the warning is printed but no placeholder is put in log_content
LogBody_NoPlaceholder(url, l) ==
    IF extract_azure_log_url_from_details(url) # None
          /\ Truthy(get_azure_build_logs(l))
    THEN get_azure_build_logs(l)[1]
    ELSE <<>>

\* log_content for a run with a details URL, when the Azure API answers l
LogBody(url, l) ==
    IF extract_azure_log_url_from_details(url) # None
    THEN IF Truthy(get_azure_build_logs(l))
         THEN get_azure_build_logs(l)[1]
         ELSE Placeholder(L_ph_download, url)
    ELSE Placeholder(L_ph_parse, url)

\* mutant: the handler of HTTPError has no return
ExceptReturn_HttpFallsThrough(err) == IF err = "HTTPError" THEN None ELSE Some(1)

\* the two except clauses of main: both return 1
ExceptReturn(err) == Some(1)

\* The inputs of a run.
MainUrls ==
    {L_github \o <<"o", "/", "r">> \o L_feedstock \o L_pull \o <<"5", "2">>,
     L_github \o <<"o", "/", "r">> \o L_pull \o <<"7">> \o <<"/">>,
     L_github \o <<"o", "/", "r">> \o L_issues \o <<"7">>}

D_good ==
    DetUrl([pre |-> L_azure, org |-> <<"g">>, project |-> <<"p">>,
            marker |-> L_build, params |-> <<<<"buildId", <<"1", "2">>>>>>])

D_bad ==
    DetUrl([pre |-> L_example, org |-> <<"g">>, project |-> <<"p">>,
            marker |-> L_build, params |-> <<>>])

MainRuns ==
    {MkRun(n, "failure", "azure-pipelines", d) :
        n \in {N_linux_64, N_osx_64}, d \in {<<>>, D_good, D_bad}}
    \cup {MkRun(N_linux_osx, "failure", "azure-pipelines", D_good),
          MkRun(N_linux_64, "success", "azure-pipelines", D_good)}

MainListings ==
    {[ok |-> FALSE, value |-> <<>>],
     [ok |-> TRUE, value |-> <<>>],
     [ok |-> TRUE, value |-> <<[url |-> TRUE, ok |-> FALSE, content |-> <<>>]>>],
     [ok |-> TRUE, value |-> <<[url |-> TRUE, ok |-> TRUE, content |-> <<>>]>>],
     [ok |-> TRUE, value |-> <<[url |-> TRUE, ok |-> TRUE, content |-> <<"a">>],
                               [url |-> TRUE, ok |-> FALSE, content |-> <<>>],
                               [url |-> TRUE, ok |-> TRUE, content |-> <<"b">>]>>]}

\* what a GitHub API request may do: answer, or raise one of these
ApiOutcomes == {"ok", "HTTPError", "URLError"}

MainInit ==
    /\ pr_url \in MainUrls
    /\ pr_ret = None
    /\ pr_pc = "off"
    /\ SelIdle
    /\ m_pc = "start"
    /\ arch_i = 0
    /\ entries = <<>>
    /\ m_err = ""
    /\ m_ret = None
    /\ m_env = [pr_api |-> "", runs_api |-> "", archs |-> <<>>]

\* an exception reaches one of the except clauses of main
Caught(err) ==
    /\ m_err' = err
    /\ m_ret' = ExceptReturn(err)
    /\ m_pc' = "done"

\* parse_github_pr_url raises ValueError
MainParseRaises ==
    /\ m_pc = "start"
    /\ parse_github_pr_url(pr_url) = None
    /\ Caught("ValueError")
    /\ UNCHANGED <<prVars, selVars, arch_i, entries, m_env, mainOthers>>

\* owner, repo, pr_number = parse_github_pr_url(pr_url)
MainParse ==
    /\ m_pc = "start"
    /\ parse_github_pr_url(pr_url) # None
    /\ pr_ret' = parse_github_pr_url(pr_url)
    /\ m_pc' = "pr_info"
    /\ UNCHANGED <<pr_url, pr_pc, selVars, arch_i, entries, m_err, m_ret, m_env, mainOthers>>

\* get_pr_info_from_api: it answers, or raises
MainPrInfo ==
    /\ m_pc = "pr_info"
    /\ \E o \in ApiOutcomes :
          /\ m_env' = [m_env EXCEPT !.pr_api = o]
          /\ IF o = "ok"
             THEN m_pc' = "check_runs" /\ UNCHANGED <<m_err, m_ret>>
             ELSE Caught(o)
    /\ UNCHANGED <<prVars, selVars, arch_i, entries, mainOthers>>

\* get_commit_check_runs_from_api raises
MainCheckRunsRaises ==
    /\ m_pc = "check_runs"
    /\ \E o \in ApiOutcomes \ {"ok"} :
          /\ m_env' = [m_env EXCEPT !.runs_api = o]
          /\ Caught(o)
    /\ UNCHANGED <<prVars, selVars, arch_i, entries, mainOthers>>

\* the check runs arrive; find_failed_azure_builds; return 1 if it found
\* nothing, else go on to the loop
MainCheckRuns ==
    /\ m_pc = "check_runs"
    /\ \E runs \in SeqUpTo(MainRuns, MaxMainRuns) :
          /\ check_runs' = runs
          /\ failed_builds' = find_failed_azure_builds(runs)
    /\ m_env' = [m_env EXCEPT !.runs_api = "ok"]
    /\ IF failed_builds' = <<>>
       THEN m_ret' = Some(1) /\ m_pc' = "done" /\ arch_i' = arch_i
       ELSE m_ret' = m_ret /\ m_pc' = "loop" /\ arch_i' = 1
    /\ UNCHANGED <<prVars, idx, sel_pc, entries, m_err, mainOthers>>

\* the loop variables of the iteration at arch_i
Arch == failed_builds[arch_i][1]

RunInfo == failed_builds[arch_i][2]

\* an iteration for a run without details URL: warn and continue
MainArchSkip ==
    /\ m_pc = "loop"
    /\ arch_i <= Len(failed_builds)
    /\ RunInfo.details_url = <<>>
    /\ arch_i' = arch_i + 1
    /\ m_env' = [m_env EXCEPT !.archs = Append(@, [arch |-> Arch, did |-> "skipped"])]
    /\ UNCHANGED <<prVars, selVars, m_pc, entries, m_err, m_ret, mainOthers>>

\* the listings the Azure API may answer with for a details URL
ListingsFor(url) ==
    IF extract_azure_log_url_from_details(url) # None
    THEN MainListings
    ELSE {[ok |-> FALSE, value |-> <<>>]}

\* an iteration for a run with a details URL: fetch the log and write the entry
MainArchWrite ==
    /\ m_pc = "loop"
    /\ arch_i <= Len(failed_builds)
    /\ RunInfo.details_url # <<>>
    /\ \E l \in ListingsFor(RunInfo.details_url) :
          /\ entries' =
                create_corpus_entry(
                    entries, OutputBase, FeedstockName(pr_ret[1][2]), pr_ret[1][3],
                    extract_build_name_from_check_run_name(RunInfo.name, Arch),
                    LogBody(RunInfo.details_url, l), pr_url)
          /\ m_env' = [m_env EXCEPT !.archs =
                          Append(@, [arch |-> Arch, did |-> "written", listing |-> l])]
    /\ arch_i' = arch_i + 1
    /\ UNCHANGED <<prVars, selVars, m_pc, m_err, m_ret, mainOthers>>

\* the same iteration when the disk refuses: create_corpus_entry raises
MainArchWriteRaises ==
    /\ m_pc = "loop"
    /\ arch_i <= Len(failed_builds)
    /\ RunInfo.details_url # <<>>
    /\ m_env' = [m_env EXCEPT !.archs = Append(@, [arch |-> Arch, did |-> "OSError"])]
    /\ Caught("OSError")
    /\ UNCHANGED <<prVars, selVars, arch_i, entries, mainOthers>>

\* the loop is over: "Done!", return 0
MainFinish ==
    /\ m_pc = "loop"
    /\ arch_i > Len(failed_builds)
    /\ m_ret' = Some(0)
    /\ m_pc' = "done"
    /\ UNCHANGED <<prVars, selVars, arch_i, entries, m_err, m_env, mainOthers>>

MainNext ==
    \/ MainParseRaises
    \/ MainParse
    \/ MainPrInfo
    \/ MainCheckRunsRaises
    \/ MainCheckRuns
    \/ MainArchSkip
    \/ MainArchWrite
    \/ MainArchWriteRaises
    \/ MainFinish

InitMain == MainInit /\ FetchIdle /\ DetIdle /\ YmlIdle /\ ValIdle /\ BnIdle

SpecMain == InitMain /\ [][MainNext]_vars

(***************************************************************************)
(* Claims about find_failed_azure_builds.                                  *)
(***************************************************************************)
\* the platform keys each name of RunNames is expected to be classified under
ExpectedPlatforms(name) ==
    CASE name = N_linux_64      -> {S_linux}
      [] name = N_Linux_aarch64 -> {S_linux}
      [] name = N_osx_64        -> {S_osx}
      [] name = N_macOS_arm64   -> {S_osx}
      [] name = N_linux_osx     -> {S_linux, S_osx}
      [] OTHER                  -> {}

\* a run that is failing, from Azure Pipelines, and named for platform k
Matches(k, run) ==
    /\ run.conclusion = "failure"
    /\ run.slug = "azure-pipelines"
    /\ k \in ExpectedPlatforms(run.name)

\* C1: at every point of the scan the dict has at most one entry per key, its
\* keys are among linux and osx, and every run in it is failing, from
\* azure-pipelines, and has a name that matches its key's substring rule.
C1_SelectedAreFailingAzure ==
    /\ DictKeys(failed_builds) \subseteq {S_linux, S_osx}
    /\ \A i, j \in 1..Len(failed_builds) :
          failed_builds[i][1] = failed_builds[j][1] => i = j
    /\ \A i \in 1..Len(failed_builds) :
          Matches(failed_builds[i][1], failed_builds[i][2])

\* the scan ended with both platforms selected although the list begins with
\* a linux run that is not failing and holds two failing linux runs
C1_Witness ==
    /\ sel_pc = "done"
    /\ DictKeys(failed_builds) = {S_linux, S_osx}
    /\ Len(check_runs) = 3
    /\ check_runs[1].conclusion = "success"
    /\ ExpectedPlatforms(check_runs[1].name) = {S_linux}
    /\ Matches(S_linux, check_runs[2])
    /\ Matches(S_linux, check_runs[3])

\* the same scan over the whole list, never stopping early
RECURSIVE ScanAll(_, _, _)
ScanAll(runs, i, fb) ==
    IF i > Len(runs) THEN fb ELSE ScanAll(runs, i + 1, FindStep(fb, runs[i]))

\* the positions of the runs that match platform k
MatchingAt(k) == {i \in 1..Len(check_runs) : Matches(k, check_runs[i])}

\* C2: when the scan has ended, each platform key is mapped to the earliest
\* matching run in input order and is absent when there is none, and the
\* dict equals the one a scan of the whole list without the break builds.
C2_FirstMatchWins ==
    sel_pc = "done" =>
        /\ \A k \in {S_linux, S_osx} :
              IF MatchingAt(k) = {}
              THEN ~DictHas(failed_builds, k)
              ELSE /\ DictHas(failed_builds, k)
                   /\ \E i \in MatchingAt(k) :
                         /\ \A j \in MatchingAt(k) : i <= j
                         /\ DictGet(failed_builds, k) = check_runs[i]
        /\ failed_builds = ScanAll(check_runs, 1, <<>>)

\* the scan stopped early, and the run it never looked at is a later,
\* different failing linux run
C2_Witness ==
    /\ sel_pc = "done"
    /\ Len(check_runs) = 3
    /\ idx = 2
    /\ Matches(S_linux, check_runs[3])
    /\ DictGet(failed_builds, S_linux) # check_runs[3]


(***************************************************************************)
(* Claims about cli.main                                                   *)
(***************************************************************************)
\* the entry directory of the i-th selected platform
EntryPath(i) ==
    Append(OutputBase,
           FolderName(FeedstockName(pr_ret[1][2]), pr_ret[1][3],
                      extract_build_name_from_check_run_name(
                          failed_builds[i][2].name, failed_builds[i][1])))

\* the details URL occurs in the text
NamesUrl(text, url) == url # <<>> /\ Contains(text, url)

\* the log of a listing: the downloaded segments, newline separated; None
\* when the listing request failed or no segment was downloaded
LogOf(l) ==
    IF l.ok /\ Downloaded(l) # <<>> THEN Some(NewlineSeparated(Downloaded(l))) ELSE None

\* the body that the claim expects in error.log of the i-th platform, given
\* the answer l of the Azure API: the log when it can be fetched
BodyIsLogOrPlaceholder(i, l, body) ==
    LET url == failed_builds[i][2].details_url IN
    IF url = D_good /\ LogOf(l) # None
    THEN body = LogOf(l)[1]
    ELSE NamesUrl(body, url) /\ StartsWithAt(body, 1, <<"#">>)

\* the run has ended after a selection that is not empty
EndedAfterSelection ==
    m_pc = "done" /\ m_env.runs_api = "ok" /\ failed_builds # <<>>

\* C4 as stated: when a run with a non-empty selection has ended, it was not
\* aborted and every selected platform has an entry, holding the downloaded
\* log when it could be fetched and else a placeholder naming the details URL.
C4_AsStated ==
    EndedAfterSelection =>
        /\ m_err = ""
        /\ \A i \in 1..Len(failed_builds) :
              /\ DictHas(entries, EntryPath(i))
              /\ i <= Len(m_env.archs)
              /\ m_env.archs[i].did = "written"
              /\ BodyIsLogOrPlaceholder(i, m_env.archs[i].listing,
                                        DictGet(entries, EntryPath(i)).error_log)

\* C4: the platforms are processed in selection order; a platform whose run
\* has no details URL gets no entry; a platform whose run has a details URL
\* gets an entry whose error.log is the downloaded log when the URL has the
\* Azure shape and the fetch yields a non-empty text, and else a placeholder
\* naming the details URL; and only an error raised while writing an entry
\* ends the loop before the last platform.
C4_EntryPerPlatformWithDetails ==
    m_pc \in {"loop", "done"} /\ m_env.runs_api = "ok" /\ failed_builds # <<>> =>
        /\ Len(m_env.archs) <= Len(failed_builds)
        /\ \A i \in 1..Len(m_env.archs) :
              LET a   == m_env.archs[i]
                  url == failed_builds[i][2].details_url
              IN  /\ a.arch = failed_builds[i][1]
                  /\ url = <<>> <=> a.did = "skipped"
                  /\ a.did # "written" => ~DictHas(entries, EntryPath(i))
                  /\ a.did = "written" =>
                        /\ DictHas(entries, EntryPath(i))
                        /\ LET body == DictGet(entries, EntryPath(i)).error_log IN
                           IF url = D_good /\ LogOf(a.listing) # None
                                 /\ LogOf(a.listing)[1] # <<>>
                           THEN body = LogOf(a.listing)[1]
                           ELSE /\ NamesUrl(body, url)
                                /\ StartsWithAt(body, 1, <<"#">>)
                  /\ a.did = "OSError" => i = Len(m_env.archs) /\ m_err = "OSError"
        /\ m_pc = "done" /\ m_err = "" => Len(m_env.archs) = Len(failed_builds)
        /\ m_pc = "done" => m_err \in {"", "OSError"}

\* a run ended with 0 after two platforms: the listing request of the first
\* failed and its entry holds a placeholder, the second holds its log
C4_Witness ==
    /\ m_pc = "done"
    /\ m_ret = Some(0)
    /\ Len(failed_builds) = 2
    /\ Len(m_env.archs) = 2
    /\ m_env.archs[1].did = "written"
    /\ m_env.archs[2].did = "written"
    /\ failed_builds[1][2].details_url = D_good
    /\ failed_builds[2][2].details_url = D_good
    /\ ~m_env.archs[1].listing.ok
    /\ LogOf(m_env.archs[2].listing) = Some(<<"a", "\n", "b">>)
    /\ Contains(DictGet(entries, EntryPath(1)).error_log, L_ph_download)
    /\ DictGet(entries, EntryPath(2)).error_log = <<"a", "\n", "b">>

\* a request to an external API failed during the run: one to the GitHub API,
\* or the listing request or a segment request to the Azure API
SomeApiRequestFailed ==
    \/ m_env.pr_api \in {"HTTPError", "URLError"}
    \/ m_env.runs_api \in {"HTTPError", "URLError"}
    \/ \E i \in 1..Len(m_env.archs) :
          /\ m_env.archs[i].did = "written"
          /\ failed_builds[i][2].details_url = D_good
          /\ \/ ~m_env.archs[i].listing.ok
             \/ \E k \in 1..Len(m_env.archs[i].listing.value) :
                   ~m_env.archs[i].listing.value[k].ok

\* every selected platform was processed and its entry written
EveryEntryWritten ==
    /\ Len(m_env.archs) = Len(failed_builds)
    /\ \A i \in 1..Len(failed_builds) :
          m_env.archs[i].did = "written" /\ DictHas(entries, EntryPath(i))

\* C5 as stated: the result is 1 when the selection is empty, 1 when a request
\* to an external API failed, 1 when another error was raised, and 0 only when
\* every selected platform was processed and its entry written.
C5_AsStated ==
    m_pc = "done" =>
        /\ m_env.runs_api = "ok" /\ failed_builds = <<>> => m_ret = Some(1)
        /\ SomeApiRequestFailed => m_ret = Some(1)
        /\ m_err # "" => m_ret = Some(1)
        /\ m_ret = Some(0) => failed_builds # <<>> /\ EveryEntryWritten

\* a request to the GitHub API failed during the run
GitHubRequestFailed ==
    \/ m_env.pr_api \in {"HTTPError", "URLError"}
    \/ m_env.runs_api \in {"HTTPError", "URLError"}

\* writing an entry raised
WriteFailed == \E i \in 1..Len(m_env.archs) : m_env.archs[i].did = "OSError"

\* C5: the result is 1 exactly when the PR URL is rejected, a request to the
\* GitHub API fails, the selection is empty, or writing an entry raises; it is
\* 0 exactly when the selection is not empty and every selected platform was
\* either written or, having no details URL, skipped; failures of requests to
\* the Azure API do not change the result.
C5_ResultCode ==
    m_pc = "done" =>
        /\ m_ret \in {Some(0), Some(1)}
        /\ m_ret = Some(1) <=>
              \/ parse_github_pr_url(pr_url) = None
              \/ GitHubRequestFailed
              \/ m_env.runs_api = "ok" /\ \A k \in {S_linux, S_osx} : MatchingAt(k) = {}
              \/ WriteFailed
        /\ m_ret = Some(0) <=>
              /\ m_env.runs_api = "ok"
              /\ \E k \in {S_linux, S_osx} : MatchingAt(k) # {}
              /\ Len(m_env.archs) = Len(failed_builds)
              /\ \A i \in 1..Len(failed_builds) :
                    \/ m_env.archs[i].did = "written" /\ DictHas(entries, EntryPath(i))
                    \/ /\ m_env.archs[i].did = "skipped"
                       /\ failed_builds[i][2].details_url = <<>>

\* a run ended with 0 although the listing request to the Azure API failed
\* for its only platform, whose entry was written with a placeholder
C5_Witness ==
    /\ m_pc = "done"
    /\ m_ret = Some(0)
    /\ Len(failed_builds) = 1
    /\ m_env.archs[1].did = "written"
    /\ failed_builds[1][2].details_url = D_good
    /\ ~m_env.archs[1].listing.ok

(***************************************************************************)
(* main, from the parsed URL to the entries written: runs over one disk    *)
(***************************************************************************)
MaxWrites == 2

\* the PR URLs of the runs: repository names with the suffix, without it, with
\* the text of the suffix in the middle, and with the suffix twice
EntryRepos ==
    {<<"r">>,
     <<"r">> \o L_feedstock,
     <<"r">> \o L_feedstock \o <<"-", "x">>,
     <<"r">> \o L_feedstock \o L_feedstock}

EntryUrls ==
    {L_github \o <<"o", "/">> \o r \o L_pull \o n :
        r \in EntryRepos, n \in {<<"5", "2">>, <<"0", "7">>}}

\* the build names and log bodies of the calls
EntryBuilds == {B_linux_64, B_osx_arm64}

EntryLogs == {<<>>, <<"a">>, <<"b">>}

\* after owner, repo, pr_number = parse_github_pr_url(pr_url), on an empty disk
EntryInit ==
    /\ pr_url \in EntryUrls
    /\ pr_ret = parse_github_pr_url(pr_url)
    /\ pr_pc = "off"
    /\ SelIdle
    /\ m_pc = "entry"
    /\ arch_i = 0
    /\ entries = <<>>
    /\ m_err = ""
    /\ m_ret = None
    /\ m_env = <<>>

\* feedstock_name = repo.replace(...), then create_corpus_entry for a build of
\* this run or of a later run of the same PR over the same output directory
EntryCreate ==
    /\ m_pc = "entry"
    /\ arch_i < MaxWrites
    /\ \E b \in EntryBuilds, log \in EntryLogs :
          /\ entries' =
                create_corpus_entry(entries, OutputBase, FeedstockName(pr_ret[1][2]),
                                    pr_ret[1][3], b, log, pr_url)
          /\ m_env' = Append(m_env, [build |-> b, log |-> log])
    /\ arch_i' = arch_i + 1
    /\ UNCHANGED <<prVars, selVars, m_pc, m_err, m_ret, mainOthers>>

EntryNext == EntryCreate

InitEntry == EntryInit /\ FetchIdle /\ DetIdle /\ YmlIdle /\ ValIdle /\ BnIdle

SpecEntry == InitEntry /\ [][EntryNext]_vars

(***************************************************************************)
(* Claims about the entries on disk                                        *)
(***************************************************************************)
\* the name with the suffix "-feedstock" taken off its end, if it ends so
StripSuffix(repo) ==
    IF Len(repo) >= Len(L_feedstock)
          /\ SubSeq(repo, Len(repo) - Len(L_feedstock) + 1, Len(repo)) = L_feedstock
    THEN SubSeq(repo, 1, Len(repo) - Len(L_feedstock))
    ELSE repo

\* the decimal numeral of the digits, without leading zeros
RECURSIVE Numeral(_)
Numeral(ds) == IF Len(ds) > 1 /\ ds[1] = "0" THEN Numeral(Tail(ds)) ELSE ds

\* the repository name and the digits of the number in an URL of EntryUrls
DigitsOfUrl(url) == SubSeq(url, Len(url) - 1, Len(url))

RepoOfUrl(url) ==
    CHOOSE r \in EntryRepos :
        url = L_github \o <<"o", "/">> \o r \o L_pull \o DigitsOfUrl(url)

\* the directory the claim names for build b
EntryDirOf(b) ==
    <<"corpus", "uncategorized",
      StripSuffix(RepoOfUrl(pr_url)) \o <<"-">> \o Numeral(DigitsOfUrl(pr_url))
          \o <<"-">> \o b>>

\* the position of the last call for build b
LastCall(b) ==
    CHOOSE i \in 1..Len(m_env) :
        m_env[i].build = b /\ \A j \in (i + 1)..Len(m_env) : m_env[j].build # b

\* C11: after any number of calls the disk holds exactly one directory per
\* build written, named {outputDir}/{category}/{feedstock}-{prNumber}-{buildName}
\* with feedstock the repository name less its "-feedstock" suffix and
\* otherwise unchanged, and its error.log and input.yml are those of the
\* last call for that build.
C11_EntryLayout ==
    m_pc = "entry" =>
        /\ DictKeys(entries) = {EntryDirOf(m_env[i].build) : i \in 1..Len(m_env)}
        /\ \A i \in 1..Len(m_env) :
              LET b == m_env[i].build IN
              /\ DictHas(entries, EntryDirOf(b))
              /\ DictGet(entries, EntryDirOf(b)).error_log = m_env[LastCall(b)].log
              /\ DictGet(entries, EntryDirOf(b)).input_yml = InputYmlContent(pr_url)

(***************************************************************************)
(* extract_build_name_from_check_run_name on names and hints drawn         *)
(***************************************************************************)
\* the pieces the names are put together from
NameTokens ==
    {<<"l","i","n","u","x">>, <<"o","s","x">>, <<"_">>, <<"6","4">>,
     <<"a","a","r","c","h","6","4">>, <<"A","R","M","6","4">>,
     <<"A","A","r","c","h","6","4">>, <<"a","r","m","6">>, <<"a","r","m">>}

RECURSIVE Concat(_)
Concat(ts) == IF ts = <<>> THEN <<>> ELSE Head(ts) \o Concat(Tail(ts))

BnNames == {Concat(ts) : ts \in SeqUpTo(NameTokens, MaxTokens)}

\* the hints: the two platform keys and values that are neither
BnHints == {S_linux, S_osx, <<>>, <<"w","i","n">>, <<"L","i","n","u","x">>, <<"o","s","x","_">>}

BnInit ==
    /\ bn_name \in BnNames
    /\ bn_arch \in BnHints
    /\ bn_ret = None
    /\ bn_pc = "call"

ExtractBuildName ==
    /\ bn_pc = "call"
    /\ bn_ret' = Some(extract_build_name_from_check_run_name(bn_name, bn_arch))
    /\ bn_pc' = "done"
    /\ UNCHANGED <<bn_name, bn_arch, bnOthers>>

BnNext == ExtractBuildName

InitBn == BnInit /\ SelIdle /\ FetchIdle /\ PrIdle /\ DetIdle /\ YmlIdle /\ ValIdle /\ MainIdle

SpecBn == InitBn /\ [][BnNext]_vars

(***************************************************************************)
(* Claims about extract_build_name_from_check_run_name                     *)
(***************************************************************************)
\* the lower-cased name holds "aarch64" or "arm64"
NamesArm(name) ==
    \E i \in 1..Len(name) :
        \E lit \in {L_aarch64, L_arm64} :
            /\ i + Len(lit) - 1 <= Len(name)
            /\ Lower(SubSeq(name, i, i + Len(lit) - 1)) = lit

\* C12: the call returns for every name and hint; with hint linux it returns
\* linux_aarch64 if the lower-cased name holds aarch64 or arm64 and linux_64
\* otherwise; with hint osx it returns osx_arm64 if it holds arm64 or aarch64
\* and osx_64 otherwise; with any other hint it returns the hint; and the
\* build names for hint linux and for hint osx of the same name differ.
C12_BuildName ==
    /\ bn_pc = "done" =>
          /\ bn_ret # None
          /\ bn_arch = S_linux =>
                bn_ret[1] = (IF NamesArm(bn_name) THEN B_linux_aarch64 ELSE B_linux_64)
          /\ bn_arch = S_osx =>
                bn_ret[1] = (IF NamesArm(bn_name) THEN B_osx_arm64 ELSE B_osx_64)
          /\ bn_arch \notin {S_linux, S_osx} => bn_ret[1] = bn_arch
    /\ bn_pc # "off" =>
          extract_build_name_from_check_run_name(bn_name, S_linux)
             # extract_build_name_from_check_run_name(bn_name, S_osx)

\* the call returned osx_arm64 for a name that holds AArch64 in mixed case
C12_Witness ==
    /\ bn_pc = "done"
    /\ bn_arch = S_osx
    /\ bn_name = <<"o","s","x","A","A","r","c","h","6","4">>
    /\ bn_ret = Some(B_osx_arm64)

=========================================================================
